---- MODULE Spec2Model ----
(***************************************************************************)
(* Model of rust/src/io.rs: read_lidar, the sweep accumulator.  One call   *)
(* of read_lidar is a run of the state machine: the arguments and the      *)
(* files on disk are chosen in Init, Start is the sequential prefix        *)
(* (lines 49-69), Worker(i) is the rayon closure applied to one row        *)
(* (lines 72-134), Finish is collect, reverse and concat (lines 135-138).  *)
(*                                                                         *)
(* Numbers.  Timestamps are u64 nanoseconds; the pose and point columns    *)
(* are f32.  The points, translations and rotation matrices used here are  *)
(* small integers, which f32 holds exactly.  A quaternion is stored in     *)
(* half units (w,x,y,z) = q/2, so that the Hurwitz unit (1,1,1,1)/2 is the *)
(* tuple <<1,1,1,1>>.  A time delta is kept in the f32 nanosecond count    *)
(* before the scaling by 1e-9: [hi |-> h, ns |-> n] is h * 2^64 + n.       *)
(***************************************************************************)
EXTENDS Integers, Sequences, FiniteSets, TLC

NumRows == 3            \* rows of the file index
MaxAccum == 3           \* largest num_accum_sweeps tried
SweepPeriodNs == 100000000

T0 == 3 * SweepPeriodNs
T1 == T0 + SweepPeriodNs
Timestamps == {T0, T1}
LogIds == {"a", "b"}
(* The two sessions are interchangeable: the target is one of them, and the *)
(* rows of the file index range over both.                                 *)
TargetLogIds == {"a"}
Rows == 0 .. (NumRows - 1)

Max(a, b) == IF a >= b THEN a ELSE b
Min(a, b) == IF a <= b THEN a ELSE b

----------------------------------------------------------------------------
(* Linear algebra on 3-vectors and 3x3 matrices (tuples of rows).          *)

Dot(u, v) == u[1] * v[1] + u[2] * v[2] + u[3] * v[3]
VecAdd(u, v) == <<u[1] + v[1], u[2] + v[2], u[3] + v[3]>>
VecSub(u, v) == <<u[1] - v[1], u[2] - v[2], u[3] - v[3]>>
VecNeg(u) == <<0 - u[1], 0 - u[2], 0 - u[3]>>
MatCol(m, j) == <<m[1][j], m[2][j], m[3][j]>>
MatT(m) == <<MatCol(m, 1), MatCol(m, 2), MatCol(m, 3)>>
MatVec(m, p) == <<Dot(m[1], p), Dot(m[2], p), Dot(m[3], p)>>
MatRowMul(r, b) == <<Dot(r, MatCol(b, 1)), Dot(r, MatCol(b, 2)), Dot(r, MatCol(b, 3))>>
MatMul(a, b) == <<MatRowMul(a[1], b), MatRowMul(a[2], b), MatRowMul(a[3], b)>>

(* so3::quat_to_mat on a quaternion given in half units: every product of  *)
(* two components carries a factor 1/4, so 2*x*y is (qx*qy) \div 2.        *)
quat_to_mat(q) ==
    LET w == q[1]
        x == q[2]
        y == q[3]
        z == q[4]
    IN  << <<1 - (y * y + z * z) \div 2, (x * y - z * w) \div 2, (x * z + y * w) \div 2>>,
           <<(x * y + z * w) \div 2, 1 - (x * x + z * z) \div 2, (y * z - x * w) \div 2>>,
           <<(x * z - y * w) \div 2, (y * z + x * w) \div 2, 1 - (x * x + y * y) \div 2>> >>

(* se3::SE3 *)
SE3(r, t) == [rotation |-> r, translation |-> t]
NoSE3 == SE3(<<>>, <<>>)

Compose(self, other) ==
    SE3(MatMul(self.rotation, other.rotation),
        VecAdd(MatVec(self.rotation, other.translation), self.translation))

Inverse(self) ==
    SE3(MatT(self.rotation), VecNeg(MatVec(MatT(self.rotation), self.translation)))

TransformFrom(self, pts) ==
    [k \in 1 .. Len(pts) |-> VecAdd(MatVec(self.rotation, pts[k]), self.translation)]

----------------------------------------------------------------------------
(* Numeric conversions of line 87.                                         *)

Pow2(n) == IF n = 0 THEN 1 ELSE 2 ^ n

(* u64 as f32 for n < 2^31: round to a 24 bit significand, ties to even.   *)
F32Exp(n) == CHOOSE e \in 0 .. 7 : n < Pow2(24 + e) /\ (e = 0 \/ n >= Pow2(23 + e))
AsF32(n) ==
    LET e == F32Exp(n)
        u == Pow2(e)
        q == n \div u
        r == n % u
        up == (2 * r > u) \/ (2 * r = u /\ q % 2 = 1)
    IN  IF e = 0 THEN n ELSE (IF up THEN q + 1 ELSE q) * u

(* u64 subtraction a - b.  When b > a the mathematical result is negative: *)
(* a build with overflow checks panics, one without wraps to 2^64 - (b-a). *)
U64Sub(a, b) ==
    IF a >= b THEN [overflow |-> FALSE, val |-> a - b]
              ELSE [overflow |-> TRUE, val |-> b - a]

TimeDeltaSwapped(a, b) ==
    LET d == U64Sub(b, a)
    IN  IF d.overflow THEN [hi |-> 1, ns |-> 0] ELSE [hi |-> 0, ns |-> AsF32(d.val)]

(* (a - b) as f32.  A wrapped difference 2^64 - d with 0 < d < 2^39 lies   *)
(* within half an f32 step (2^39) of 2^64 and converts to 2^64.            *)
TimeDelta(a, b) ==
    LET d == U64Sub(a, b)
    IN  IF d.overflow THEN [hi |-> 1, ns |-> 0] ELSE [hi |-> 0, ns |-> AsF32(d.val)]

----------------------------------------------------------------------------
(* The data the call reads.                                                *)

(* Every sweep file holds the same two points. *)
Cloud(ts) == << <<1, 0, 0>>, <<0, 2, 3>> >>

QuatIdentity == <<2, 0, 0, 0>>
PoseRow(ts, t, q) == [timestamp_ns |-> ts, t |-> t, q |-> q]
PoseOptions(ts) ==
    IF ts = T0
    THEN {<<>>, <<PoseRow(T0, <<0, 0, 0>>, QuatIdentity)>>,
                <<PoseRow(T0, <<0, 1, 0>>, <<1, 1, 1, 1>>)>>}
    ELSE {<<>>, <<PoseRow(T1, <<2, 0, 0>>, QuatIdentity)>>,
                <<PoseRow(T1, <<2, 0, 1>>, <<1, 1, 0 - 1, 1>>)>>}
PoseTables == {a \o b : a \in PoseOptions(T0), b \in PoseOptions(T1)}

FileStates == {"ok", "missing", "malformed"}

VARIABLES
    file_index,         \* row -> [log_id, timestamp_ns]
    log_id,             \* target session
    timestamp_ns,       \* query timestamp
    idx,                \* query row
    num_accum_sweeps,   \* window size W
    poses,              \* rows of city_SE3_egovehicle.feather
    disk,               \* timestamp -> state of sensors/lidar/<timestamp>.feather
    pc,                 \* "start", "par", "returned", "panicked"
    panic,              \* panic message, "none" while running
    ego_se3_city,       \* inverse of the query pose
    pending,            \* rows of the parallel iterator not yet processed
    done,               \* blocks produced by the workers
    arrival,            \* rows of the produced blocks, in completion order
    lidar_table         \* the returned table, as its sequence of blocks

vars == <<file_index, log_id, timestamp_ns, idx, num_accum_sweeps, poses, disk,
          pc, panic, ego_se3_city, pending, done, arrival, lidar_table>>

inputs == <<file_index, log_id, timestamp_ns, idx, num_accum_sweeps, poses, disk>>

----------------------------------------------------------------------------
ReadFrameLenient(d, ts) == [err |-> "none", xyz |-> Cloud(ts)]

(* read_frame (lines 32-38): the frame, or the panic of expect / unwrap.   *)
ReadFrame(d, ts) ==
    IF d[ts] = "ok" THEN [err |-> "none", xyz |-> Cloud(ts)]
    ELSE IF d[ts] = "missing" THEN [err |-> "File not found", xyz |-> <<>>]
    ELSE [err |-> "This IPC file is malformed", xyz |-> <<>>]

(* frame_to_ndarray_with_filter (lines 187-203) on the pose table. *)
frame_to_ndarray_with_filter(frame, ts) ==
    SelectSeq(frame, LAMBDA r : r.timestamp_ns = ts)

(* Lines 61-67 and 96-102: row 0 of the filtered poses as an SE3. *)
PoseToSE3(rows) == SE3(quat_to_mat(rows[1].q), rows[1].t)

StartIdxOffByOne(i, w) == Max(i - w, 0)

(* Line 49. *)
StartIdx(i, w) == Max(i - w + 1, 0)

(* Lines 73-77: the filter_map of the parallel iterator. *)
KeepRow(i) == file_index[i].log_id = log_id

NeedsCompensationOlderOnly(ts_i, ts) == ts_i < ts

(* Line 89. *)
NeedsCompensation(ts_i, ts) == ts_i # ts

SweepToQuerySwapped(ego_city, city_ego_i) == Compose(city_ego_i, ego_city)

(* Line 103. *)
SweepToQuery(ego_city, city_ego_i) == Compose(ego_city, city_ego_i)

NoBlock == [row |-> 0 - 1, timestamp_ns |-> 0, xyz |-> <<>>, timedelta_ns |-> <<>>]

(* Lines 79-134: the map closure on row i.  overflow_checks is the build's *)
(* setting for arithmetic overflow.                                        *)
MapSweep(i, overflow_checks) ==
    LET timestamp_ns_i == file_index[i].timestamp_ns
        lidar == ReadFrame(disk, timestamp_ns_i)
        xyz == lidar.xyz
        d == U64Sub(timestamp_ns, timestamp_ns_i)
        timedeltas == [k \in 1 .. Len(xyz) |-> TimeDelta(timestamp_ns, timestamp_ns_i)]
        pose_i == frame_to_ndarray_with_filter(poses, timestamp_ns_i)
        xyz_ref == TransformFrom(SweepToQuery(ego_se3_city, PoseToSE3(pose_i)), xyz)
    IN  IF lidar.err # "none" THEN [panic |-> lidar.err, block |-> NoBlock]
        ELSE IF d.overflow /\ overflow_checks
        THEN [panic |-> "attempt to subtract with overflow", block |-> NoBlock]
        ELSE IF NeedsCompensation(timestamp_ns_i, timestamp_ns)
        THEN IF pose_i = <<>>
             THEN [panic |-> "ndarray: index out of bounds", block |-> NoBlock]
             ELSE [panic |-> "none",
                   block |-> [row |-> i, timestamp_ns |-> timestamp_ns_i,
                              xyz |-> xyz_ref, timedelta_ns |-> timedeltas]]
        ELSE [panic |-> "none",
              block |-> [row |-> i, timestamp_ns |-> timestamp_ns_i,
                         xyz |-> xyz, timedelta_ns |-> timedeltas]]

(* Line 135: rayon's collect into a Vec keeps the order of the source      *)
(* iterator, whatever the order in which the closures finished.            *)
RECURSIVE AscendingBlocks(_)
AscendingBlocks(bs) ==
    IF bs = {} THEN <<>>
    ELSE LET b == CHOOSE c \in bs : \A o \in bs : c.row <= o.row
         IN  <<b>> \o AscendingBlocks(bs \ {b})

CollectByArrival(bs, arr) ==
    [k \in 1 .. Len(arr) |-> CHOOSE b \in bs : b.row = arr[k]]

Collect(bs, arr) == AscendingBlocks(bs)

ReverseOmitted(s) == s

(* Line 137. *)
Reverse(s) == [k \in 1 .. Len(s) |-> s[Len(s) + 1 - k]]

ConcatAlwaysOk(list) == TRUE

(* Line 138: concat is an Err on an empty list, and unwrap panics on it.   *)
ConcatOk(list) == list # <<>>

----------------------------------------------------------------------------
Init ==
    /\ file_index \in [Rows -> [log_id : LogIds, timestamp_ns : Timestamps]]
    /\ log_id \in TargetLogIds
    /\ timestamp_ns \in Timestamps
    /\ idx \in Rows
    /\ num_accum_sweeps \in 0 .. MaxAccum
    /\ poses \in PoseTables
    /\ disk \in [Timestamps -> FileStates]
    /\ pc = "start"
    /\ panic = "none"
    /\ ego_se3_city = NoSE3
    /\ pending = {}
    /\ done = {}
    /\ arrival = <<>>
    /\ lidar_table = <<>>

(* Lines 49-69: the pose file is read, the query pose resolved and         *)
(* inverted, and the candidate rows handed to the parallel iterator.       *)
Start ==
    /\ pc = "start"
    /\ \E poses_file \in FileStates :
         LET pose_ref == frame_to_ndarray_with_filter(poses, timestamp_ns)
         IN  IF poses_file # "ok"
             THEN /\ pc' = "panicked"
                  /\ panic' = IF poses_file = "missing" THEN "File not found"
                              ELSE "This IPC file is malformed"
                  /\ UNCHANGED <<ego_se3_city, pending>>
             ELSE IF pose_ref = <<>>
             THEN /\ pc' = "panicked"
                  /\ panic' = "ndarray: index out of bounds"
                  /\ UNCHANGED <<ego_se3_city, pending>>
             ELSE /\ pc' = "par"
                  /\ panic' = "none"
                  /\ ego_se3_city' = Inverse(PoseToSE3(pose_ref))
                  /\ pending' = StartIdx(idx, num_accum_sweeps) .. idx
    /\ UNCHANGED <<inputs, done, arrival, lidar_table>>

(* Lines 72-134 on one row, run by whichever worker takes it. A panic in a *)
(* worker is propagated by rayon to the caller of collect.                 *)
Worker(i) ==
    /\ pc = "par"
    /\ i \in pending
    /\ IF ~KeepRow(i)
       THEN /\ pending' = pending \ {i}
            /\ UNCHANGED <<pc, panic, done, arrival>>
       ELSE \E overflow_checks \in BOOLEAN :
              LET r == MapSweep(i, overflow_checks)
              IN  IF r.panic # "none"
                  THEN /\ pc' = "panicked"
                       /\ panic' = r.panic
                       /\ UNCHANGED <<pending, done, arrival>>
                  ELSE /\ pending' = pending \ {i}
                       /\ done' = done \cup {r.block}
                       /\ arrival' = Append(arrival, i)
                       /\ UNCHANGED <<pc, panic>>
    /\ UNCHANGED <<inputs, ego_se3_city, lidar_table>>

(* Lines 135-138: collect, reverse, concat, unwrap. *)
Finish ==
    /\ pc = "par"
    /\ pending = {}
    /\ LET lidar_list == Reverse(Collect(done, arrival))
       IN  IF ConcatOk(lidar_list)
           THEN /\ pc' = "returned"
                /\ lidar_table' = lidar_list
                /\ UNCHANGED panic
           ELSE /\ pc' = "panicked"
                /\ panic' = "concat: empty container"
                /\ UNCHANGED lidar_table
    /\ UNCHANGED <<inputs, ego_se3_city, pending, done, arrival>>

Next ==
    \/ Start
    \/ \E i \in Rows : Worker(i)
    \/ Finish

Spec == Init /\ [][Next]_vars

----------------------------------------------------------------------------
(* What the claims speak about, written from the arguments of the call.    *)

Returned == pc = "returned"
Window == {i \in Rows : Max(idx - num_accum_sweeps + 1, 0) <= i /\ i <= idx}
Contributing == {i \in Window : file_index[i].log_id = log_id}
OutRows == {lidar_table[k].row : k \in 1 .. Len(lidar_table)}
PoseRowsAt(ts) == {poses[k] : k \in {j \in 1 .. Len(poses) : poses[j].timestamp_ns = ts}}
ZeroDelta == [hi |-> 0, ns |-> 0]
AllDeltas(b, v) == \A k \in 1 .. Len(b.timedelta_ns) : b.timedelta_ns[k] = v

(* p' = R_q^T (R_i p + t_i - t_q) *)
Compensated(pq, pi, p) ==
    MatVec(MatT(quat_to_mat(pq.q)), VecSub(VecAdd(MatVec(quat_to_mat(pi.q), p), pi.t), pq.t))
CompensatedCloud(pq, pi, pts) == [k \in 1 .. Len(pts) |-> Compensated(pq, pi, pts[k])]

(* Rows idx-1 and idx are the sweeps at T0 and T1 of the target session,   *)
(* queried at T1 with a window of 2.                                       *)
TwoSweeps ==
    /\ idx >= 1
    /\ num_accum_sweeps = 2
    /\ timestamp_ns = T1
    /\ file_index[idx] = [log_id |-> log_id, timestamp_ns |-> T1]
    /\ file_index[idx - 1] = [log_id |-> log_id, timestamp_ns |-> T0]

(* The vehicle moved by (2,0,0) between T0 and T1 without rotating. *)
StraightPoses ==
    /\ \A r \in PoseRowsAt(T0) \cup PoseRowsAt(T1) : r.q = QuatIdentity
    /\ \A r0 \in PoseRowsAt(T0) : \A r1 \in PoseRowsAt(T1) : VecSub(r1.t, r0.t) = <<2, 0, 0>>

(* C1 as stated: with two or more contributing sweeps, the query sweep's   *)
(* block is the last block of the returned table.                          *)
C1_QueryLast ==
    (Returned /\ Len(lidar_table) >= 2 /\ idx \in OutRows)
        => lidar_table[Len(lidar_table)].row = idx

(* C1 amended: with two or more contributing sweeps the reversal puts the  *)
(* newest contributing row first and the oldest last, so the query sweep,  *)
(* when it contributes, is the first block.                                *)
C1_QueryFirst ==
    (Returned /\ Len(lidar_table) >= 2)
        => /\ \A i \in Contributing : i <= lidar_table[1].row
           /\ \A i \in Contributing : lidar_table[Len(lidar_table)].row <= i
           /\ idx \in Contributing => lidar_table[1].row = idx

C1_Witness ==
    /\ Returned
    /\ Len(lidar_table) = 3
    /\ lidar_table[1].row = idx
    /\ lidar_table[3].row = idx - 2

(* C2: the position of a row's block in the returned table is one more     *)
(* than the number of contributing rows above it, whatever the order in    *)
(* which the workers finished.                                             *)
C2_OrderByIndex ==
    Returned =>
        \A k \in 1 .. Len(lidar_table) :
            Cardinality({j \in Contributing : j > lidar_table[k].row}) = k - 1

C2_Witness ==
    /\ Returned
    /\ \E p, q \in 1 .. Len(arrival) : p < q /\ arrival[p] < arrival[q]
    /\ \E p, q \in 1 .. Len(arrival) : p < q /\ arrival[p] > arrival[q]

(* C3: the returned blocks are exactly the rows of the window that belong  *)
(* to the target session, once each, at most min(W, idx + 1) of them; with *)
(* W = 3 and the two rows before idx in another session, only row idx.     *)
C3_Selection ==
    Returned =>
        /\ OutRows = Contributing
        /\ Len(lidar_table) = Cardinality(Contributing)
        /\ Len(lidar_table) <= Min(num_accum_sweeps, idx + 1)
        /\ (/\ num_accum_sweeps = 3
            /\ idx >= 2
            /\ file_index[idx].log_id = log_id
            /\ file_index[idx - 1].log_id # log_id
            /\ file_index[idx - 2].log_id # log_id)
           => /\ Len(lidar_table) = 1
              /\ lidar_table[1].row = idx
              /\ Len(lidar_table[1].xyz) = Len(Cloud(file_index[idx].timestamp_ns))

C3_Witness ==
    /\ Returned
    /\ num_accum_sweeps = 3
    /\ idx >= 2
    /\ file_index[idx - 1].log_id # log_id
    /\ file_index[idx - 2].log_id # log_id
    /\ OutRows = {idx}

(* C4: a block whose timestamp is the query timestamp keeps the x, y, z of *)
(* its file and has time offset 0; a block with another timestamp has     *)
(* its x, y, z replaced by the coordinates in the query frame.             *)
C4_SkipOrCompensate ==
    Returned =>
        \A k \in 1 .. Len(lidar_table) :
            LET b == lidar_table[k]
            IN  IF b.timestamp_ns = timestamp_ns
                THEN b.xyz = Cloud(b.timestamp_ns) /\ AllDeltas(b, ZeroDelta)
                ELSE \E pq \in PoseRowsAt(timestamp_ns), pi \in PoseRowsAt(b.timestamp_ns) :
                        b.xyz = CompensatedCloud(pq, pi, Cloud(b.timestamp_ns))

C4_Witness ==
    /\ Returned
    /\ \E k \in 1 .. Len(lidar_table) :
          /\ lidar_table[k].timestamp_ns = timestamp_ns
          /\ lidar_table[k].row # idx
    /\ \E k \in 1 .. Len(lidar_table) :
          /\ lidar_table[k].timestamp_ns # timestamp_ns
          /\ lidar_table[k].xyz # Cloud(lidar_table[k].timestamp_ns)

(* C5 as stated: every point of every block carries the signed difference  *)
(* query - sweep, also when the sweep is later than the query, and the     *)
(* subtraction never aborts the call.                                      *)
SignedF32(n) == IF n >= 0 THEN AsF32(n) ELSE 0 - AsF32(0 - n)
C5_SignedOffset ==
    /\ panic # "attempt to subtract with overflow"
    /\ Returned =>
          \A k \in 1 .. Len(lidar_table) :
              AllDeltas(lidar_table[k],
                        [hi |-> 0, ns |-> SignedF32(timestamp_ns - lidar_table[k].timestamp_ns)])

(* C6: a block with another timestamp than the query holds                 *)
(* R_q^T (R_i p + t_i - t_q) for every point p of its file; for the sweeps *)
(* at T0 and T1 with poses (2,0,0) apart and no rotation, the T1 block     *)
(* holds (1,0,0) and the T0 block (-1,0,0).                                *)
C6_MotionCompensation ==
    Returned =>
        /\ \A k \in 1 .. Len(lidar_table) :
              lidar_table[k].timestamp_ns # timestamp_ns =>
                 \A pq \in PoseRowsAt(timestamp_ns) :
                    \A pi \in PoseRowsAt(lidar_table[k].timestamp_ns) :
                       \A n \in 1 .. Len(lidar_table[k].xyz) :
                          lidar_table[k].xyz[n] =
                             Compensated(pq, pi, Cloud(lidar_table[k].timestamp_ns)[n])
        /\ (TwoSweeps /\ StraightPoses) =>
              /\ Len(lidar_table) = 2
              /\ {lidar_table[k].timestamp_ns : k \in 1 .. 2} = {T0, T1}
              /\ \A k \in 1 .. 2 :
                    lidar_table[k].xyz[1] =
                       IF lidar_table[k].timestamp_ns = T1 THEN <<1, 0, 0>> ELSE <<0 - 1, 0, 0>>

C6_Witness ==
    /\ Returned
    /\ TwoSweeps
    /\ StraightPoses
    /\ \E k \in 1 .. Len(lidar_table) : lidar_table[k].xyz[1] = <<0 - 1, 0, 0>>

(* C7 as stated: for the sweeps at T0 and T1 queried at T1 with window 2,  *)
(* the T1 block has time offset 0 and the T0 block a negative one, minus   *)
(* the sweep period.                                                       *)
C7_OlderNegative ==
    (Returned /\ TwoSweeps) =>
        \A k \in 1 .. Len(lidar_table) :
            AllDeltas(lidar_table[k],
                      IF lidar_table[k].timestamp_ns = T1 THEN ZeroDelta
                      ELSE [hi |-> 0, ns |-> 0 - AsF32(T1 - T0)])

(* C7 amended: the T1 block has time offset 0 and the T0 block the         *)
(* positive offset query - sweep, plus the sweep period.                   *)
C7_OlderPositive ==
    (Returned /\ TwoSweeps) =>
        /\ Len(lidar_table) = 2
        /\ \A k \in 1 .. Len(lidar_table) :
              /\ Len(lidar_table[k].timedelta_ns) = Len(Cloud(lidar_table[k].timestamp_ns))
              /\ AllDeltas(lidar_table[k],
                           IF lidar_table[k].timestamp_ns = T1 THEN ZeroDelta
                           ELSE [hi |-> 0, ns |-> AsF32(T1 - T0)])

C7_Witness ==
    /\ Returned
    /\ TwoSweeps
    /\ \E k \in 1 .. Len(lidar_table) :
          /\ lidar_table[k].timestamp_ns = T0
          /\ lidar_table[k].timedelta_ns[1].ns > 0

(* C8: when no row of the window belongs to the target session the call    *)
(* does not return; a returned table is never empty.                       *)
C8_EmptyFails ==
    /\ Contributing = {} => pc # "returned"
    /\ Returned => lidar_table # <<>>

C8_Witness ==
    /\ pc = "panicked"
    /\ panic = "concat: empty container"
    /\ num_accum_sweeps = 0

(* C9: a table is returned only if the query pose was found, every         *)
(* contributing file was read, and the pose of every contributing sweep    *)
(* with another timestamp was found; it then holds every contributing      *)
(* sweep, and a call that panicked returns no table.                       *)
C9_AllOrNothing ==
    /\ Returned =>
          /\ PoseRowsAt(timestamp_ns) # {}
          /\ \A i \in Contributing :
                /\ disk[file_index[i].timestamp_ns] = "ok"
                /\ file_index[i].timestamp_ns # timestamp_ns
                      => PoseRowsAt(file_index[i].timestamp_ns) # {}
                /\ \E k \in 1 .. Len(lidar_table) : lidar_table[k].row = i
    /\ pc = "panicked" => lidar_table = <<>>

C9_Witness ==
    /\ pc = "panicked"
    /\ done # {}
    /\ panic \in {"File not found", "This IPC file is malformed"}

(* C10 as stated: every returned table holds the block of row idx.         *)
C10_QueryIncluded == Returned => idx \in OutRows

====
